---- MODULE Spec2Model ----
(***************************************************************************)
(* A model of titler.py: the slugifier make_url_safe, the TitleInfo        *)
(* methods output_title_tag / generate_prefix / generate_id, the heading   *)
(* classifier get_book_division, the prefix resolver get_part_prefix, the  *)
(* heading parser process_first_heading, process_file and the batch loop   *)
(* of main.                                                                *)
(*                                                                         *)
(* Text is modelled as a sequence of characters.  A character is a one-    *)
(* character string, or the name of its code point ("U+00E9") when it is   *)
(* not printable ASCII.                                                    *)
(***************************************************************************)
EXTENDS Integers, Sequences, FiniteSets, TLC

VARIABLES
    \* SpecSlug: the input of make_url_safe, its result, the result's result
    text, once, twice, slugPc,
    \* SpecTitle: a TitleInfo, its title tag and its section id
    title_info, title_out, id_out, titlePc,
    \* SpecDivision: the ancestors of a heading, nearest first, and its division
    chain, division_out, divPc,
    \* SpecPrefix: a parsed TitleInfo, the enclosing sections, the result
    prefix_in, sections_in, prefix_out, prefPc,
    \* SpecFile: a document, what process_file ends with, its TitleInfo
    doc, result, file_info, filePc,
    \* SpecBatch: the spine, --rename, the files, the loop of main
    file_list, rename, files, index, processed, calls, warned, main_exc, mainPc

slugVars == <<text, once, twice, slugPc>>
titleVars == <<title_info, title_out, id_out, titlePc>>
divisionVars == <<chain, division_out, divPc>>
prefixVars == <<prefix_in, sections_in, prefix_out, prefPc>>
fileVars == <<doc, result, file_info, filePc>>
batchVars ==
    <<file_list, rename, files, index, processed, calls, warned, main_exc, mainPc>>
vars == <<slugVars, titleVars, divisionVars, prefixVars, fileVars, batchVars>>

(***************************************************************************)
(* Bounds of the model.                                                    *)
(***************************************************************************)
MaxLen == 3
MaxNumber == 4
MaxTokens == 2
MaxDepth == 3
MaxIdLen == 4
MaxFiles == 3

(***************************************************************************)
(* Characters.                                                             *)
(***************************************************************************)
UPPER == <<"A","B","C","D","E","F","G","H","I","J","K","L","M",
           "N","O","P","Q","R","S","T","U","V","W","X","Y","Z">>
LOWER == <<"a","b","c","d","e","f","g","h","i","j","k","l","m",
           "n","o","p","q","r","s","t","u","v","w","x","y","z">>

Range(s) == {s[i] : i \in DOMAIN s}

UpperLetters == Range(UPPER)
LowerLetters == Range(LOWER)
Digits == {"0","1","2","3","4","5","6","7","8","9"}

\* str.strip() and the regex class \s: space, tab, line feed
Whitespace == {" ", "TAB", "LF"}

\* the regex class \p{M}: combining marks (here the combining acute accent)
CombiningMarks == {"U+0301"}

\* ['‘’]
Apostrophes == {"U+0027", "U+2018", "U+2019"}

\* ["”“]
DoubleQuotes == {"U+0022", "U+201C", "U+201D"}

\* unicodedata.normalize("NFKD", c) of one character: e-acute and E-acute
\* decompose to the letter and the combining acute accent, the no-break
\* space to a space; every other character of the model is its own NFKD form.
NFKDChar(c) ==
    CASE c = "U+00E9" -> <<"e", "U+0301">>
      [] c = "U+00C9" -> <<"E", "U+0301">>
      [] c = "U+00A0" -> <<" ">>
      [] OTHER -> <<c>>

\* str.lower() of one character
LowerChar(c) ==
    IF c \in UpperLetters
    THEN LOWER[CHOOSE i \in DOMAIN UPPER : UPPER[i] = c]
    ELSE c

\* str.upper() of one character
UpperChar(c) ==
    IF c \in LowerLetters
    THEN UPPER[CHOOSE i \in DOMAIN LOWER : LOWER[i] = c]
    ELSE c

(***************************************************************************)
(* Operations on strings.                                                  *)
(***************************************************************************)
\* unicodedata.normalize("NFKD", text)
RECURSIVE NFKD(_)
NFKD(s) ==
    IF s = <<>> THEN <<>> ELSE NFKDChar(Head(s)) \o NFKD(Tail(s))

\* regex.sub of a one-character class by the empty string
RemoveChars(s, class) == SelectSeq(s, LAMBDA c : c \notin class)

\* str.lower()
Lower(s) == [i \in DOMAIN s |-> LowerChar(s[i])]

RECURSIVE LStrip(_)
LStrip(s) ==
    IF s # <<>> /\ Head(s) \in Whitespace THEN LStrip(Tail(s)) ELSE s

RECURSIVE RStripClass(_, _)
RStripClass(s, class) ==
    IF s # <<>> /\ s[Len(s)] \in class
    THEN RStripClass(SubSeq(s, 1, Len(s) - 1), class)
    ELSE s

\* str.strip()
Strip(s) == RStripClass(LStrip(s), Whitespace)

\* step 1: regex.sub(r"\p{M}", "", unicodedata.normalize("NFKD", text))
Unaccent(s) == RemoveChars(NFKD(s), CombiningMarks)

\* step 5: regex.sub(r"[^0-9a-z]", " ", text, flags=regex.IGNORECASE)
NonAlnumToSpace(s) ==
    [i \in DOMAIN s |->
        IF s[i] \in Digits \cup LowerLetters \cup UpperLetters THEN s[i] ELSE " "]

\* step 6: regex.sub(r"\s+", "-", text): each maximal run of whitespace
\* becomes one dash
RECURSIVE SpacesToDash(_)
SpacesToDash(s) ==
    IF s = <<>> THEN <<>>
    ELSE IF Head(s) \in Whitespace
         THEN <<"-">> \o SpacesToDash(LStrip(s))
         ELSE <<Head(s)>> \o SpacesToDash(Tail(s))

\* step 7: regex.sub(r"\-+$", "", text)
RemoveTrailingDashes(s) == RStripClass(s, {"-"})

\* The steps of make_url_safe with the trailing dashes removed before the
\* punctuation is converted (step 7 moved before step 5).
make_url_safe_dashes_first(s) ==
    SpacesToDash(NonAlnumToSpace(RemoveTrailingDashes(
        RemoveChars(RemoveChars(Lower(Strip(Unaccent(s))), Apostrophes),
                    DoubleQuotes))))

make_url_safe(s) ==
    RemoveTrailingDashes(SpacesToDash(NonAlnumToSpace(
        RemoveChars(RemoveChars(Lower(Strip(Unaccent(s))), Apostrophes),
                    DoubleQuotes))))

(***************************************************************************)
(* Decimal and Roman numerals.                                             *)
(***************************************************************************)
DIGITS == <<"0","1","2","3","4","5","6","7","8","9">>

\* str(number)
RECURSIVE Str(_)
Str(n) ==
    IF n < 10 THEN <<DIGITS[n + 1]>>
    ELSE Str(n \div 10) \o <<DIGITS[(n % 10) + 1]>>

\* the numeral map of the roman library, largest value first
romanNumeralMap ==
    << <<<<"M">>, 1000>>, <<<<"C","M">>, 900>>, <<<<"D">>, 500>>,
       <<<<"C","D">>, 400>>, <<<<"C">>, 100>>, <<<<"X","C">>, 90>>,
       <<<<"L">>, 50>>, <<<<"X","L">>, 40>>, <<<<"X">>, 10>>,
       <<<<"I","X">>, 9>>, <<<<"V">>, 5>>, <<<<"I","V">>, 4>>,
       <<<<"I">>, 1>> >>

\* roman.toRoman: the canonical numeral of n
RECURSIVE ToRomanFrom(_, _)
ToRomanFrom(n, k) ==
    IF n = 0 \/ k > Len(romanNumeralMap) THEN <<>>
    ELSE IF n >= romanNumeralMap[k][2]
         THEN romanNumeralMap[k][1] \o ToRomanFrom(n - romanNumeralMap[k][2], k)
         ELSE ToRomanFrom(n, k + 1)

ToRoman(n) == ToRomanFrom(n, 1)

IsPrefix(p, s) == Len(p) <= Len(s) /\ SubSeq(s, 1, Len(p)) = p

\* the summing loop of roman.fromRoman: <<value, characters left unread>>
RECURSIVE RomanSum(_, _, _)
RomanSum(s, k, acc) ==
    IF k > Len(romanNumeralMap) THEN <<acc, s>>
    ELSE IF IsPrefix(romanNumeralMap[k][1], s)
         THEN RomanSum(SubSeq(s, Len(romanNumeralMap[k][1]) + 1, Len(s)), k,
                       acc + romanNumeralMap[k][2])
         ELSE RomanSum(s, k + 1, acc)

\* roman.fromRoman accepts exactly the canonical numerals (its pattern
\* M{0,4}(CM|CD|D?C{0,3})(XC|XL|L?X{0,3})(IX|IV|V?I{0,3})) and raises
\* InvalidRomanNumeralError on a blank input and on everything else.
ValidRoman(s) ==
    /\ s # <<>>
    /\ RomanSum(s, 1, 0)[2] = <<>>
    /\ RomanSum(s, 1, 0)[1] < 5000
    /\ ToRoman(RomanSum(s, 1, 0)[1]) = s

fromRoman(s) == RomanSum(s, 1, 0)[1]

(***************************************************************************)
(* se.formatting.titlecase, as far as the headings of the model need it:   *)
(* the first letter of every word is capitalised, the rest is left alone   *)
(* (so a Roman numeral stays as it is) and markup is not touched.  A tag   *)
(* is one character whose name starts with "<".                            *)
(***************************************************************************)
TagChars ==
    {"<i>", "</i>", "<span>", "<span epub:type=subtitle>",
     "<span epub:type=z3998:roman>", "<span epub:type=title>", "</span>"}

Letters == LowerLetters \cup UpperLetters

titlecase(s) ==
    [i \in DOMAIN s |->
        IF s[i] \in Letters /\ (i = 1 \/ s[i - 1] \notin Letters \cup Digits)
        THEN UpperChar(s[i])
        ELSE s[i]]

\* Tag.get_text() of serialized markup: the text without the tags
StripTags(s) == RemoveChars(s, TagChars)

(***************************************************************************)
(* BookDivision and TitleInfo.                                             *)
(***************************************************************************)
BookDivision ==
    {"NONE", "ARTICLE", "SUBCHAPTER", "CHAPTER", "DIVISION", "PART", "VOLUME"}

\* TitleInfo(): the class attributes; division is set by process_first_heading
NewTitleInfo(division) ==
    [title |-> <<>>, subtitle |-> <<>>, title_no_embeds |-> <<>>,
     subtitle_no_embeds |-> <<>>, roman |-> <<>>, number |-> 0, depth |-> 1,
     id_prefix |-> <<>>, division |-> division,
     section_id |-> <<>>, file_prefix |-> <<>>]

\* generate_prefix with a prefix word for SUBCHAPTER as well
generate_prefix_subchapter(self) ==
    CASE self.division = "ARTICLE" -> <<>>
      [] self.division = "SUBCHAPTER" -> <<"S","u","b","c","h","a","p","t","e","r">>
      [] self.division = "CHAPTER" -> <<"C","h","a","p","t","e","r">>
      [] self.division = "DIVISION" -> <<"D","i","v","i","s","i","o","n">>
      [] self.division = "PART" -> <<"P","a","r","t">>
      [] self.division = "VOLUME" -> <<"V","o","l","u","m","e">>
      [] OTHER -> <<>>

generate_prefix(self) ==
    CASE self.division = "ARTICLE" -> <<>>
      [] self.division = "CHAPTER" -> <<"C","h","a","p","t","e","r">>
      [] self.division = "DIVISION" -> <<"D","i","v","i","s","i","o","n">>
      [] self.division = "PART" -> <<"P","a","r","t">>
      [] self.division = "VOLUME" -> <<"V","o","l","u","m","e">>
      [] OTHER -> <<>>

output_title_tag(self) ==
    LET prefix == generate_prefix(self)
    IN  IF self.subtitle # <<>>
        THEN IF prefix # <<>>
             THEN prefix \o <<" ">> \o Str(self.number) \o <<":", " ">>
                      \o self.subtitle_no_embeds
             ELSE IF self.title_no_embeds = <<>>
                  THEN self.subtitle_no_embeds
                  ELSE self.title_no_embeds \o <<":", " ">>
                           \o self.subtitle_no_embeds
        ELSE IF prefix # <<>>
             THEN IF self.number > 0
                  THEN prefix \o <<" ">> \o Str(self.number)
                  ELSE self.title_no_embeds
             ELSE self.title_no_embeds

\* the candidate string of generate_id, before it is made URL-safe
id_string(self) ==
    LET prefix == generate_prefix(self)
    IN  IF self.roman # <<>>
        THEN prefix \o <<"-">> \o self.id_prefix \o <<"-">> \o Str(self.number)
        ELSE IF self.title_no_embeds # <<>>
             THEN IF self.id_prefix # <<>>
                  THEN self.id_prefix \o <<"-">> \o self.title_no_embeds
                  ELSE self.title_no_embeds
             ELSE IF self.subtitle_no_embeds # <<>>
                  THEN self.subtitle_no_embeds
                  ELSE <<>>

generate_id(self) == make_url_safe(id_string(self))

(***************************************************************************)
(* The document tree, as far as the program reads it.  An element has a    *)
(* name, the tokens of its epub:type attribute in the order written (none: *)
(* the attribute is absent or empty, which get("epub:type") or "" does not *)
(* tell apart) and an id (empty: absent).  The ancestors of a heading are  *)
(* listed nearest first, as find_parents returns them.                     *)
(***************************************************************************)
Element(name, epub_type, id) == [name |-> name, epub_type |-> epub_type, id |-> id]

\* the characters of a token of the epub:type vocabulary
TokenChars(tok) ==
    CASE tok = "part" -> <<"p","a","r","t">>
      [] tok = "division" -> <<"d","i","v","i","s","i","o","n">>
      [] tok = "volume" -> <<"v","o","l","u","m","e">>
      [] tok = "chapter" -> <<"c","h","a","p","t","e","r">>
      [] tok = "subchapter" -> <<"s","u","b","c","h","a","p","t","e","r">>
      [] tok = "se:short-story" -> <<"s","e",":","s","h","o","r","t","-","s","t","o","r","y">>
      [] tok = "bodymatter" -> <<"b","o","d","y","m","a","t","t","e","r">>
      [] tok = "z3998:fiction" -> <<"z","3","9","9","8",":","f","i","c","t","i","o","n">>
      [] tok = "title" -> <<"t","i","t","l","e">>
      [] tok = "subtitle" -> <<"s","u","b","t","i","t","l","e">>
      [] tok = "z3998:roman" -> <<"z","3","9","9","8",":","r","o","m","a","n">>

\* the value of an epub:type attribute: its tokens separated by spaces
RECURSIVE AttrString(_)
AttrString(tokens) ==
    IF tokens = <<>> THEN <<>>
    ELSE IF Len(tokens) = 1 THEN TokenChars(tokens[1])
    ELSE TokenChars(tokens[1]) \o <<" ">> \o AttrString(Tail(tokens))

\* needle in hay, for Python strings
Contains(needle, hay) ==
    \E i \in 0 .. Len(hay) - Len(needle) :
        SubSeq(hay, i + 1, i + Len(needle)) = needle

\* "<token>" in epub_type
HasMarker(tok, epub_type) == Contains(TokenChars(tok), AttrString(epub_type))

\* "<text>" in epub_type
HasMarkerText(chars, epub_type) == Contains(chars, AttrString(epub_type))

\* tag.find_parents(names)
find_parents(ancestors, names) == SelectSeq(ancestors, LAMBDA e : e.name \in names)

\* get_book_division with "volume" tested before "part"
get_book_division_volume_first(ancestors) ==
    LET sectioning == find_parents(ancestors, {"section", "article"})
        parent_section == IF sectioning # <<>> THEN sectioning
                          ELSE find_parents(ancestors, {"body"})
    IN  IF parent_section = <<>> THEN "NONE"
        ELSE LET section_epub_type == parent_section[1].epub_type
             IN  IF HasMarker("volume", section_epub_type)
                     /\ ~HasMarker("se:short-story", section_epub_type)
                 THEN "VOLUME"
                 ELSE IF HasMarker("part", section_epub_type) THEN "PART"
                 ELSE IF HasMarker("division", section_epub_type) THEN "DIVISION"
                 ELSE IF HasMarker("subchapter", section_epub_type) THEN "SUBCHAPTER"
                 ELSE IF HasMarker("chapter", section_epub_type) THEN "CHAPTER"
                 ELSE IF parent_section[1].name = "article" THEN "ARTICLE"
                 ELSE "NONE"

get_book_division(ancestors) ==
    LET sectioning == find_parents(ancestors, {"section", "article"})
        parent_section == IF sectioning # <<>> THEN sectioning
                          ELSE find_parents(ancestors, {"body"})
    IN  IF parent_section = <<>> THEN "NONE"
        ELSE LET section_epub_type == parent_section[1].epub_type
             IN  IF HasMarker("part", section_epub_type) THEN "PART"
                 ELSE IF HasMarker("division", section_epub_type) THEN "DIVISION"
                 ELSE IF HasMarker("volume", section_epub_type)
                         /\ ~HasMarker("se:short-story", section_epub_type)
                 THEN "VOLUME"
                 ELSE IF HasMarker("subchapter", section_epub_type) THEN "SUBCHAPTER"
                 ELSE IF HasMarker("chapter", section_epub_type) THEN "CHAPTER"
                 \* "article" in parent_section[0].name, of section, article, body
                 ELSE IF parent_section[1].name = "article" THEN "ARTICLE"
                 ELSE "NONE"

\* the regex class \w, of the characters an id is made of
WordChars == Letters \cup Digits \cup {"_"}

\* the last index of the run of characters of class that starts at i
RECURSIVE RunEnd(_, _, _)
RunEnd(s, i, class) ==
    IF i < Len(s) /\ s[i + 1] \in class THEN RunEnd(s, i + 1, class) ELSE i

\* \w+[-](\d{1,}.*?) matches from i: \w+ takes the run of word characters
\* from i (a shorter take is followed by a word character, not by the
\* hyphen), then come the hyphen and a digit
PartNumberMatchesAt(s, i) ==
    /\ s[i] \in WordChars
    /\ LET j == RunEnd(s, i, WordChars)
       IN  /\ j + 2 <= Len(s)
           /\ s[j + 1] = "-"
           /\ s[j + 2] \in Digits

\* regex.search(r"\w+[-](\d{1,}.*?)", section_id): the leftmost match
PartNumberMatches(s) == \E i \in DOMAIN s : PartNumberMatchesAt(s, i)

\* match.group(1): the digits \d{1,} takes; the lazy .*? at the end of the
\* pattern takes nothing
PartNumberGroup(s) ==
    LET i == CHOOSE k \in DOMAIN s :
                 /\ PartNumberMatchesAt(s, k)
                 /\ \A l \in 1 .. k - 1 : ~PartNumberMatchesAt(s, l)
        j == RunEnd(s, i, WordChars)
    IN  SubSeq(s, j + 2, RunEnd(s, j + 2, Digits))

\* get_part_prefix reading the nearest section (sections[0]) for the part
get_part_prefix_nearest(title_info_in, sections) ==
    LET counted == [title_info_in EXCEPT !.depth = Len(sections)]
    IN  IF counted.depth <= 1 THEN counted
        ELSE IF sections[1].epub_type = <<>> THEN counted
        ELSE IF ~HasMarker("part", sections[1].epub_type)
                /\ ~HasMarker("division", sections[1].epub_type)
                /\ ~HasMarker("volume", sections[1].epub_type)
        THEN counted
        ELSE IF sections[1].id = <<>> THEN counted
        ELSE IF HasMarkerText(<<"s","h","o","r","t","-","s","t","o","r","y">>, sections[1].epub_type)
        THEN [counted EXCEPT !.id_prefix = sections[1].id]
        ELSE IF PartNumberMatches(sections[1].id)
        THEN [counted EXCEPT !.file_prefix = sections[1].id,
                             !.id_prefix = PartNumberGroup(sections[1].id)]
        ELSE [counted EXCEPT !.file_prefix = sections[1].id]

\* sections[0] of the code is sections[1] here: sequences count from 1
get_part_prefix(title_info_in, sections) ==
    LET counted == [title_info_in EXCEPT !.depth = Len(sections)]
    IN  IF counted.depth <= 1 THEN counted
        ELSE IF sections[2].epub_type = <<>> THEN counted
        ELSE IF ~HasMarker("part", sections[2].epub_type)
                /\ ~HasMarker("division", sections[2].epub_type)
                /\ ~HasMarker("volume", sections[2].epub_type)
        THEN counted
        ELSE IF sections[2].id = <<>> THEN counted
        ELSE IF HasMarkerText(<<"s","h","o","r","t","-","s","t","o","r","y">>, sections[1].epub_type)
        THEN [counted EXCEPT !.id_prefix = sections[2].id]
        ELSE IF PartNumberMatches(sections[2].id)
        THEN [counted EXCEPT !.file_prefix = sections[2].id,
                             !.id_prefix = PartNumberGroup(sections[2].id)]
        ELSE [counted EXCEPT !.file_prefix = sections[2].id]

(***************************************************************************)
(* Headings.  A heading has the tokens of its epub:type attribute, child   *)
(* nodes (text, span elements, i elements) and a layout: on one line, or   *)
(* laid out across lines (a line break and a tab before the first node and *)
(* between two elements, a line break before the closing tag).  The        *)
(* content of a span may hold inline tags.                                 *)
(***************************************************************************)
Node(kind, epub_type, content) ==
    [kind |-> kind, epub_type |-> epub_type, content |-> content]

Heading(epub_type, lines, nodes) ==
    [epub_type |-> epub_type, lines |-> lines, nodes |-> nodes]

\* the opening tag of a span, as str() writes it
SpanOpen(epub_type) ==
    CASE epub_type = <<>> -> "<span>"
      [] epub_type = <<"subtitle">> -> "<span epub:type=subtitle>"
      [] epub_type = <<"z3998:roman">> -> "<span epub:type=z3998:roman>"
      [] epub_type = <<"title">> -> "<span epub:type=title>"

\* str(content) of one child node
NodeString(n) ==
    CASE n.kind = "text" -> n.content
      [] n.kind = "span" -> <<SpanOpen(n.epub_type)>> \o n.content \o <<"</span>">>
      [] n.kind = "i" -> <<"<i>">> \o n.content \o <<"</i>">>

RECURSIVE NodesString(_, _)
NodesString(nodes, lines) ==
    IF nodes = <<>> THEN <<>>
    ELSE IF Len(nodes) = 1 THEN NodeString(nodes[1])
    ELSE NodeString(nodes[1])
             \o (IF lines /\ nodes[1].kind # "text" /\ nodes[2].kind # "text"
                 THEN <<"LF", "TAB">> ELSE <<>>)
             \o NodesString(Tail(nodes), lines)

\* extract_contents_as_string(heading): the markup between the heading's tags
extract_contents_as_string(heading) ==
    IF heading.lines
    THEN <<"LF", "TAB">> \o NodesString(heading.nodes, TRUE) \o <<"LF">>
    ELSE NodesString(heading.nodes, FALSE)

\* str(heading).count("\n") + 1 = 1; the tags of a heading hold no line break
OneLine(heading) == "LF" \notin Range(extract_contents_as_string(heading))

CompoundWords ==
    { <<"B","o","o","k">>, <<"P","a","r","t">>,
      <<"D","i","v","i","s","i","o","n">>, <<"V","o","l","u","m","e">> }

\* the index of the first "</span>" from i on that no line break precedes
\* (the . of (.*?) does not match one), 0 if there is none
RECURSIVE FirstSpanClose(_, _)
FirstSpanClose(s, i) ==
    IF i > Len(s) \/ s[i] = "LF" THEN 0
    ELSE IF s[i] = "</span>" THEN i
    ELSE FirstSpanClose(s, i + 1)

\* (Book|Part|Division|Volume) <span epub:type="z3998:roman">(.*?)</span>,
\* ignoring case, matches word w at i
CompoundMatchesAt(s, w, i) ==
    /\ i + Len(w) + 1 <= Len(s)
    /\ Lower(SubSeq(s, i, i + Len(w) - 1)) = Lower(w)
    /\ s[i + Len(w)] = " "
    /\ s[i + Len(w) + 1] = "<span epub:type=z3998:roman>"
    /\ FirstSpanClose(s, i + Len(w) + 2) # 0

CompoundMatches(s) ==
    \E i \in DOMAIN s, w \in CompoundWords : CompoundMatchesAt(s, w, i)

\* regex.search: the leftmost match, as <<group(1), group(2)>>
CompoundGroups(s) ==
    LET i == CHOOSE k \in DOMAIN s :
                 /\ \E w \in CompoundWords : CompoundMatchesAt(s, w, k)
                 /\ \A l \in 1 .. k - 1, w \in CompoundWords :
                        ~CompoundMatchesAt(s, w, l)
        w == CHOOSE x \in CompoundWords : CompoundMatchesAt(s, x, i)
        open == i + Len(w) + 1
    IN  << SubSeq(s, i, i + Len(w) - 1),
           SubSeq(s, open + 1, FirstSpanClose(s, open + 1) - 1) >>

\* What process_first_heading ends with: a TitleInfo ("info"), None by
\* falling off its end ("none"), or InvalidRomanNumeralError out of
\* roman.fromRoman ("raise"); nodes are the heading's children after
\* update_span.
Parsed(ret, info, nodes) == [ret |-> ret, info |-> info, nodes |-> nodes]

\* the body of the loop over the spans, from span k on
RECURSIVE ParseSpans(_, _, _)
ParseSpans(info, nodes, k) ==
    IF k > Len(nodes) THEN Parsed("info", info, nodes)
    ELSE IF nodes[k].kind # "span" THEN ParseSpans(info, nodes, k + 1)
    ELSE LET span == nodes[k]
             plain == StripTags(span.content)
         IN  IF HasMarker("z3998:roman", span.epub_type)
             THEN IF ValidRoman(plain)
                  THEN ParseSpans([info EXCEPT !.roman = plain,
                                               !.number = fromRoman(plain)],
                                  nodes, k + 1)
                  ELSE Parsed("raise", [info EXCEPT !.roman = plain], nodes)
             ELSE IF HasMarker("subtitle", span.epub_type)
             THEN ParseSpans(
                      [info EXCEPT !.subtitle_no_embeds = titlecase(plain),
                                   !.subtitle = titlecase(span.content)],
                      [nodes EXCEPT ![k].content = titlecase(span.content)],
                      k + 1)
             ELSE ParseSpans(
                      [info EXCEPT !.title = titlecase(span.content),
                                   !.title_no_embeds = titlecase(plain)],
                      [nodes EXCEPT ![k].content = titlecase(span.content)],
                      k + 1)

process_first_heading(heading, ancestors) ==
    LET title_info0 == NewTitleInfo(get_book_division(ancestors))
        temp_title == extract_contents_as_string(heading)
    IN  IF CompoundMatches(temp_title)
        THEN LET groups == CompoundGroups(temp_title)
             IN  IF ValidRoman(groups[2])
                 THEN LET no_embeds == groups[1] \o <<" ">> \o Str(fromRoman(groups[2]))
                      IN  Parsed("info",
                                 [title_info0 EXCEPT
                                     !.title_no_embeds = no_embeds,
                                     !.title = titlecase(temp_title),
                                     !.section_id = make_url_safe(no_embeds)],
                                 heading.nodes)
                 ELSE Parsed("raise", title_info0, heading.nodes)
        ELSE IF OneLine(heading) /\ heading.epub_type # <<>>
        THEN IF HasMarker("z3998:roman", heading.epub_type)
             THEN LET numeral == StripTags(temp_title)
                  IN  IF ValidRoman(numeral)
                      THEN LET numbered == [title_info0 EXCEPT
                                               !.roman = numeral,
                                               !.number = fromRoman(numeral)]
                           IN  Parsed("info",
                                      [numbered EXCEPT
                                          !.section_id = generate_id(numbered)],
                                      heading.nodes)
                      ELSE Parsed("raise", [title_info0 EXCEPT !.roman = numeral],
                                  heading.nodes)
             ELSE Parsed("info",
                         [title_info0 EXCEPT
                             !.title = titlecase(temp_title),
                             !.title_no_embeds = titlecase(StripTags(temp_title))],
                         heading.nodes)
        ELSE IF \E k \in DOMAIN heading.nodes : heading.nodes[k].kind = "span"
        THEN ParseSpans(title_info0, heading.nodes, 1)
        ELSE Parsed("none", title_info0, heading.nodes)

(***************************************************************************)
(* Documents and process_file.  A document has at most one heading of      *)
(* level 2 to 6 that counts (the first), the ancestors of that heading,    *)
(* nearest first, and at most one title element.  An unreadable or empty   *)
(* file is the document without anything.                                  *)
(***************************************************************************)
Document(heading, ancestors, title_tag) ==
    [heading |-> heading, ancestors |-> ancestors, title_tag |-> title_tag]

NoDocument == Document(<<>>, <<>>, <<>>)

\* What process_file ends with: the pair (markup, id) ("ok"), the pair of
\* blanks ("blank"), or an exception it does not catch ("raise").
FileResult(status, exc, xhtml, new_id) ==
    [status |-> status, exc |-> exc, xhtml |-> xhtml, new_id |-> new_id]

\* section["id"] = new_id, on the nearest section
RECURSIVE SetNearestSectionId(_, _)
SetNearestSectionId(ancestors, new_id) ==
    IF ancestors = <<>> THEN <<>>
    ELSE IF Head(ancestors).name = "section"
         THEN <<[Head(ancestors) EXCEPT !.id = new_id]>> \o Tail(ancestors)
         ELSE <<Head(ancestors)>> \o SetNearestSectionId(Tail(ancestors), new_id)

\* the end of process_file: the id on the nearest section, the title in the
\* title element if there is one, and the pair (markup, id)
write_back(soup, nodes, title_info1, new_id) ==
    [result |->
         FileResult("ok", "",
             Document(<<[soup.heading[1] EXCEPT !.nodes = nodes]>>,
                      SetNearestSectionId(soup.ancestors, new_id),
                      IF soup.title_tag = <<>> THEN <<>>
                      ELSE <<output_title_tag(title_info1)>>),
             new_id),
     title_info |-> title_info1]

\* process_file from get_part_prefix on, with what process_first_heading
\* returned
after_first_heading(soup, parsed) ==
    IF parsed.ret = "raise"
    THEN [result |-> FileResult("raise", "InvalidRomanNumeralError", soup, <<>>),
          title_info |-> NewTitleInfo("NONE")]
    ELSE IF parsed.ret = "none"
    \* get_part_prefix(None, sections): None has no attribute depth
    THEN [result |-> FileResult("raise", "AttributeError", soup, <<>>),
          title_info |-> NewTitleInfo("NONE")]
    ELSE write_back(soup, parsed.nodes,
                    get_part_prefix(parsed.info,
                                    find_parents(soup.ancestors, {"section"})),
                    generate_id(get_part_prefix(parsed.info,
                                    find_parents(soup.ancestors, {"section"}))))

\* process_file on the parsed document: what it returns or raises (result)
\* and the TitleInfo it worked with (title_info)
process_file_run(soup) ==
    IF soup.heading = <<>>
    \* failure, so return blanks
    THEN [result |-> FileResult("blank", "", NoDocument, <<>>),
          title_info |-> NewTitleInfo("NONE")]
    ELSE after_first_heading(soup,
             process_first_heading(soup.heading[1], soup.ancestors))

process_file(soup) == process_file_run(soup).result

(***************************************************************************)
(* main: the loop over the spine.  A file name is written without its      *)
(* .xhtml; the file system maps the names of the files that exist to       *)
(* documents.                                                              *)
(***************************************************************************)
EXCLUDE_LIST ==
    { <<"t","i","t","l","e","p","a","g","e">>, <<"c","o","l","o","p","h","o","n">>,
      <<"u","n","c","o","p","y","r","i","g","h","t">>, <<"i","m","p","r","i","n","t">>,
      <<"h","a","l","f","t","i","t","l","e">>,
      <<"d","e","d","i","c","a","t","i","o","n">>,
      <<"e","n","d","n","o","t","e","s">>, <<"l","o","i">> }

\* gethtml followed by BeautifulSoup: a file that cannot be opened reads as ''
gethtml(disk, name) == IF name \in DOMAIN disk THEN disk[name] ELSE NoDocument

\* puthtml
puthtml(disk, name, xhtml) == (name :> xhtml) @@ disk

(***************************************************************************)
(* SpecSlug: make_url_safe applied to a bounded input, and applied again   *)
(* to its own result.                                                      *)
(***************************************************************************)
SlugAlphabet ==
    {"a", "B", "7", "U+00E9", "U+0301", " ", "-", "U+0027", "U+0022", "!"}

RECURSIVE StringsUpTo(_, _)
StringsUpTo(alphabet, n) ==
    IF n = 0 THEN {<<>>}
    ELSE LET shorter == StringsUpTo(alphabet, n - 1)
         IN  shorter \cup {Append(s, c) : s \in shorter, c \in alphabet}

SlugInit ==
    /\ text \in StringsUpTo(SlugAlphabet, MaxLen)
    /\ once = <<>>
    /\ twice = <<>>
    /\ slugPc = "input"

SlugIdle ==
    /\ text = <<>>
    /\ once = <<>>
    /\ twice = <<>>
    /\ slugPc = "idle"

Slugify ==
    /\ slugPc = "input"
    /\ once' = make_url_safe(text)
    /\ slugPc' = "once"
    /\ UNCHANGED <<text, twice>>
    /\ UNCHANGED <<titleVars, divisionVars, prefixVars, fileVars, batchVars>>

Reslugify ==
    /\ slugPc = "once"
    /\ twice' = make_url_safe(once)
    /\ slugPc' = "twice"
    /\ UNCHANGED <<text, once>>
    /\ UNCHANGED <<titleVars, divisionVars, prefixVars, fileVars, batchVars>>

SlugNext == Slugify \/ Reslugify

\* C1: slugifying an already slugified string changes nothing:
\* make_url_safe(make_url_safe(x)) = make_url_safe(x) for every input x.
SlugIdempotent == slugPc = "twice" => twice = once

\* C1 witness: an input that begins with punctuation and ends with an
\* accented letter followed by punctuation has been slugified twice; its slug
\* keeps the leading dash.
SlugIdempotentWitness ==
    /\ slugPc = "twice"
    /\ text = <<"!", "U+00E9", "-">>
    /\ once = <<"-", "e">>

(***************************************************************************)
(* SpecTitle: output_title_tag and generate_id applied to a TitleInfo as   *)
(* process_first_heading and get_part_prefix leave it: the number is that  *)
(* of the Roman numeral (0 without one), the texts are title-cased.        *)
(***************************************************************************)
SampleTitles ==
    { <<<<>>, <<>>>>,
      <<<<"<i>","A","b","</i>"," ","C">>, <<"A","b"," ","C">>>> }

SampleSubtitles ==
    { <<<<>>, <<>>>>,
      <<<<"A"," ","<i>","S","u","b","</i>">>, <<"A"," ","S","u","b">>>> }

SampleIdPrefixes == { <<>>, <<"2">>, <<"b","o","o","k","-","1">> }

SampleNumbers == (0 .. MaxNumber) \cup {14}

TitleInit ==
    /\ \E d \in BookDivision, n \in SampleNumbers, t \in SampleTitles,
          s \in SampleSubtitles, p \in SampleIdPrefixes :
          title_info = [NewTitleInfo(d) EXCEPT
                           !.title = t[1], !.title_no_embeds = t[2],
                           !.subtitle = s[1], !.subtitle_no_embeds = s[2],
                           !.roman = IF n = 0 THEN <<>> ELSE ToRoman(n),
                           !.number = n,
                           !.id_prefix = p,
                           !.depth = IF p = <<>> THEN 1 ELSE 2]
    /\ title_out = <<>>
    /\ id_out = <<>>
    /\ titlePc = "info"

TitleIdle ==
    /\ title_info = NewTitleInfo("NONE")
    /\ title_out = <<>>
    /\ id_out = <<>>
    /\ titlePc = "idle"

OutputTitleTag ==
    /\ titlePc \in {"info", "id"}
    /\ title_out' = output_title_tag(title_info)
    /\ titlePc' = IF titlePc = "info" THEN "title" ELSE "both"
    /\ UNCHANGED <<title_info, id_out>>
    /\ UNCHANGED <<slugVars, divisionVars, prefixVars, fileVars, batchVars>>

GenerateId ==
    /\ titlePc \in {"info", "title"}
    /\ id_out' = generate_id(title_info)
    /\ titlePc' = IF titlePc = "info" THEN "id" ELSE "both"
    /\ UNCHANGED <<title_info, title_out>>
    /\ UNCHANGED <<slugVars, divisionVars, prefixVars, fileVars, batchVars>>

TitleNext == OutputTitleTag \/ GenerateId

TitleHasTag == titlePc \in {"title", "both"}
TitleHasId == titlePc \in {"id", "both"}

\* the prefix word the rule table names for a division
RulePrefix(division) ==
    CASE division = "CHAPTER" -> <<"C","h","a","p","t","e","r">>
      [] division = "DIVISION" -> <<"D","i","v","i","s","i","o","n">>
      [] division = "PART" -> <<"P","a","r","t">>
      [] division = "VOLUME" -> <<"V","o","l","u","m","e">>
      [] division \in {"ARTICLE", "NONE", "SUBCHAPTER"} -> <<>>

\* C2: the title tag is the result of the first matching rule of the six-rule
\* table, with the prefix word "Chapter", "Division", "Part" or "Volume" for
\* those divisions and none for Article, None and Subchapter; the number is
\* rendered only behind a prefix word.
TitleTagFollowsRuleTable ==
    TitleHasTag =>
        LET ti == title_info
            prefix == RulePrefix(ti.division)
            hasSub == ti.subtitle # <<>>
            hasPrefix == prefix # <<>>
            hasTitle == ti.title_no_embeds # <<>>
        IN  /\ (hasSub /\ hasPrefix) =>
                  title_out = prefix \o <<" ">> \o Str(ti.number) \o <<":", " ">>
                                  \o ti.subtitle_no_embeds
            /\ (hasSub /\ ~hasPrefix /\ ~hasTitle) =>
                  title_out = ti.subtitle_no_embeds
            /\ (hasSub /\ ~hasPrefix /\ hasTitle) =>
                  title_out = ti.title_no_embeds \o <<":", " ">>
                                  \o ti.subtitle_no_embeds
            /\ (~hasSub /\ hasPrefix /\ ti.number > 0) =>
                  title_out = prefix \o <<" ">> \o Str(ti.number)
            /\ (~hasSub /\ hasPrefix /\ ti.number = 0) =>
                  title_out = ti.title_no_embeds
            /\ (~hasSub /\ ~hasPrefix) =>
                  title_out = ti.title_no_embeds

\* C2 witness: a numbered subchapter with a title and no subtitle got its
\* title alone as the tag: no prefix word, so no number.
TitleTagWitness ==
    /\ TitleHasTag
    /\ title_info.division = "SUBCHAPTER"
    /\ title_info.number = 14
    /\ title_info.subtitle = <<>>
    /\ title_info.title_no_embeds = <<"A","b"," ","C">>
    /\ title_out = <<"A","b"," ","C">>

\* the segments of a string between its hyphens, empty ones included
RECURSIVE SplitOnHyphen(_, _)
SplitOnHyphen(s, cur) ==
    IF s = <<>> THEN <<cur>>
    ELSE IF Head(s) = "-"
         THEN <<cur>> \o SplitOnHyphen(Tail(s), <<>>)
         ELSE SplitOnHyphen(Tail(s), Append(cur, Head(s)))

RECURSIVE JoinWithHyphen(_)
JoinWithHyphen(segs) ==
    IF segs = <<>> THEN <<>>
    ELSE IF Len(segs) = 1 THEN segs[1]
    ELSE segs[1] \o <<"-">> \o JoinWithHyphen(Tail(segs))

\* C3: with a Roman numeral parsed, the id is exactly the non-empty segments
\* of "{prefix}-{idPrefix}-{number}", lowercased and joined by single hyphens:
\* no leading hyphen, no trailing hyphen and no doubled hyphen, whatever the
\* division and the idPrefix.
RomanIdIsCleanJoin ==
    (TitleHasId /\ title_info.roman # <<>>) =>
        LET segs == SelectSeq(
                        <<Lower(RulePrefix(title_info.division))>>
                            \o SplitOnHyphen(Lower(title_info.id_prefix), <<>>)
                            \o <<Str(title_info.number)>>,
                        LAMBDA seg : seg # <<>>)
        IN  /\ id_out = JoinWithHyphen(segs)
            /\ id_out # <<>>
            /\ Head(id_out) # "-"
            /\ id_out[Len(id_out)] # "-"
            /\ \A i \in 1 .. Len(id_out) - 1 :
                   ~(id_out[i] = "-" /\ id_out[i + 1] = "-")

(***************************************************************************)
(* SpecDivision: get_book_division applied to a heading whose nearest      *)
(* ancestor carries up to MaxTokens markers, in every order.               *)
(***************************************************************************)
DivisionTokens ==
    {"part", "division", "volume", "subchapter", "chapter", "se:short-story",
     "bodymatter", "z3998:fiction"}

RECURSIVE TokenLists(_, _)
TokenLists(tokens, n) ==
    IF n = 0 THEN {<<>>}
    ELSE LET shorter == TokenLists(tokens, n - 1)
         IN  shorter \cup {Append(l, t) : l \in shorter, t \in tokens}

\* the attribute values: lists of distinct tokens
AttrValues(tokens, n) ==
    {l \in TokenLists(tokens, n) : Cardinality(Range(l)) = Len(l)}

\* what lies outside the nearest ancestor
OuterChains ==
    { <<>>,
      <<Element("body", <<"bodymatter">>, <<>>)>>,
      <<Element("section", <<"volume">>, <<"v","-","1">>),
        Element("body", <<"bodymatter">>, <<>>)>> }

DivisionInit ==
    /\ \E name \in {"section", "article", "body", "div"},
          attr \in AttrValues(DivisionTokens, MaxTokens),
          outer \in OuterChains :
          /\ name = "body" => outer = <<>>
          /\ chain = <<Element(name, attr, <<>>)>> \o outer
    /\ division_out = "NONE"
    /\ divPc = "heading"

DivisionIdle ==
    /\ chain = <<>>
    /\ division_out = "NONE"
    /\ divPc = "idle"

Classify ==
    /\ divPc = "heading"
    /\ division_out' = get_book_division(chain)
    /\ divPc' = "classified"
    /\ UNCHANGED chain
    /\ UNCHANGED <<slugVars, titleVars, prefixVars, fileVars, batchVars>>

DivisionNext == Classify

\* C4: the division follows the fixed priority over the set of marker tokens
\* of the nearest section or article ancestor (the body if there is none):
\* part, division, volume without short-story, subchapter, chapter, article
\* ancestor, None; the order of the tokens in the attribute does not matter.
ClassificationFollowsPriority ==
    divPc = "classified" =>
        LET sectioning == {i \in DOMAIN chain : chain[i].name \in {"section", "article"}}
            bodies == {i \in DOMAIN chain : chain[i].name = "body"}
            among == IF sectioning # {} THEN sectioning ELSE bodies
        IN  IF among = {} THEN division_out = "NONE"
            ELSE LET nearest == chain[CHOOSE i \in among : \A k \in among : i <= k]
                     tokens == Range(nearest.epub_type)
                 IN  division_out =
                         CASE "part" \in tokens -> "PART"
                           [] "part" \notin tokens /\ "division" \in tokens -> "DIVISION"
                           [] {"part", "division"} \cap tokens = {}
                              /\ "volume" \in tokens
                              /\ "se:short-story" \notin tokens -> "VOLUME"
                           [] {"part", "division"} \cap tokens = {}
                              /\ ~("volume" \in tokens /\ "se:short-story" \notin tokens)
                              /\ "subchapter" \in tokens -> "SUBCHAPTER"
                           [] {"part", "division", "subchapter"} \cap tokens = {}
                              /\ ~("volume" \in tokens /\ "se:short-story" \notin tokens)
                              /\ "chapter" \in tokens -> "CHAPTER"
                           [] {"part", "division", "subchapter", "chapter"} \cap tokens = {}
                              /\ ~("volume" \in tokens /\ "se:short-story" \notin tokens)
                              /\ nearest.name = "article" -> "ARTICLE"
                           [] OTHER -> "NONE"

\* C4 witness: an ancestor marked "volume part", in that order, was
\* classified as a part.
ClassificationWitness ==
    /\ divPc = "classified"
    /\ chain # <<>>
    /\ chain[1].name = "section"
    /\ chain[1].epub_type = <<"volume", "part">>
    /\ division_out = "PART"

(***************************************************************************)
(* SpecPrefix: get_part_prefix applied to a parsed TitleInfo and up to     *)
(* MaxDepth enclosing sections, the second of them with every id of up to  *)
(* MaxIdLen characters.                                                    *)
(***************************************************************************)
IdAlphabet == {"p", "1", "2", "-"}

NearestMarkers == { <<>>, <<"chapter">>, <<"se:short-story">> }

OuterMarkers == { <<>>, <<"part">>, <<"volume">>, <<"division">>, <<"chapter">> }

ParsedInfos ==
    { [NewTitleInfo("CHAPTER") EXCEPT !.roman = <<"I","V">>, !.number = 4],
      [NewTitleInfo("NONE") EXCEPT !.title = <<"A","b">>,
                                   !.title_no_embeds = <<"A","b">>] }

\* the sections farther out than the second
RECURSIVE FartherSections(_)
FartherSections(n) ==
    IF n <= 0 THEN <<>>
    ELSE <<Element("section", <<"volume">>, <<"v","-","9">>)>>
             \o FartherSections(n - 1)

PrefixInit ==
    /\ prefix_in \in ParsedInfos
    /\ \E depth \in 0 .. MaxDepth, near \in NearestMarkers,
          outer \in OuterMarkers, id \in StringsUpTo(IdAlphabet, MaxIdLen) :
          /\ depth = 0 => near = <<>>
          /\ depth < 2 => (outer = <<>> /\ id = <<>>)
          /\ sections_in =
                 SubSeq(<<Element("section", near, <<"c","-","1">>),
                          Element("section", outer, id)>>
                            \o FartherSections(depth - 2),
                        1, depth)
    /\ prefix_out = prefix_in
    /\ prefPc = "parsed"

PrefixIdle ==
    /\ prefix_in = NewTitleInfo("NONE")
    /\ sections_in = <<>>
    /\ prefix_out = NewTitleInfo("NONE")
    /\ prefPc = "idle"

ResolvePrefix ==
    /\ prefPc = "parsed"
    /\ prefix_out' = get_part_prefix(prefix_in, sections_in)
    /\ prefPc' = "resolved"
    /\ UNCHANGED <<prefix_in, sections_in>>
    /\ UNCHANGED <<slugVars, titleVars, divisionVars, fileVars, batchVars>>

PrefixNext == ResolvePrefix

\* the second section carries a part, division or volume marker and an id
OuterIsNumberedPart ==
    /\ Len(sections_in) >= 2
    /\ Range(sections_in[2].epub_type) \cap {"part", "division", "volume"} # {}
    /\ sections_in[2].id # <<>>

NearestIsShortStory ==
    /\ Len(sections_in) >= 1
    /\ "se:short-story" \in Range(sections_in[1].epub_type)

\* the digits that follow the hyphen at k
DigitsAfter(s, k) == SubSeq(s, k + 1, RunEnd(s, k + 1, Digits))

\* the first run of digits following a hyphen
FirstDigitsAfterHyphen(s) ==
    LET hyphens == {k \in 1 .. Len(s) - 1 : s[k] = "-" /\ s[k + 1] \in Digits}
    IN  IF hyphens = {} THEN <<>>
        ELSE DigitsAfter(s, CHOOSE k \in hyphens : \A l \in hyphens : k <= l)

\* the first run of digits following a hyphen that follows a word character
FirstDigitsAfterWordHyphen(s) ==
    LET hyphens == {k \in 2 .. Len(s) - 1 :
                        /\ s[k] = "-"
                        /\ s[k + 1] \in Digits
                        /\ s[k - 1] \in WordChars}
    IN  IF hyphens = {} THEN <<>>
        ELSE DigitsAfter(s, CHOOSE k \in hyphens : \A l \in hyphens : k <= l)

\* depth is the number of sections, and nothing that feeds the title or the
\* id changes but id_prefix
PrefixLeavesTheRest ==
    /\ prefix_out.depth = Len(sections_in)
    /\ \A f \in {"title", "subtitle", "title_no_embeds", "subtitle_no_embeds",
                 "roman", "number", "division"} : prefix_out[f] = prefix_in[f]

\* C5, as claimed: idPrefix is set only at depth >= 2 under a part, division
\* or volume with an id: to the whole id when the nearest section is a short
\* story, else to the first run of digits following a hyphen in the id.
PrefixIsFirstDigitsAfterHyphen ==
    prefPc = "resolved" =>
        /\ PrefixLeavesTheRest
        /\ prefix_out.id_prefix =
               IF ~OuterIsNumberedPart THEN <<>>
               ELSE IF NearestIsShortStory THEN sections_in[2].id
               ELSE FirstDigitsAfterHyphen(sections_in[2].id)

\* C5, amended: as claimed, but the digits are those of the first hyphen that
\* follows a word character and is followed by a digit; without such a hyphen
\* idPrefix stays unset.
PrefixIsFirstDigitsAfterWordHyphen ==
    prefPc = "resolved" =>
        /\ PrefixLeavesTheRest
        /\ prefix_out.id_prefix =
               IF ~OuterIsNumberedPart THEN <<>>
               ELSE IF NearestIsShortStory THEN sections_in[2].id
               ELSE FirstDigitsAfterWordHyphen(sections_in[2].id)

\* C5 witness: under the part "-1-2" (the first hyphen follows nothing) a
\* chapter got the prefix "2".
PrefixWitness ==
    /\ prefPc = "resolved"
    /\ Len(sections_in) = 2
    /\ sections_in[1].epub_type = <<"chapter">>
    /\ sections_in[2].epub_type = <<"part">>
    /\ sections_in[2].id = <<"-", "1", "-", "2">>
    /\ prefix_out.id_prefix = <<"2">>

(***************************************************************************)
(* SpecFile: process_file applied to one document: a heading of one of the *)
(* shapes below, in either layout, under every chain of ancestors below,   *)
(* with or without a title element.                                        *)
(***************************************************************************)
A_TALE == <<"a"," ","t","a","l","e">>
A_SUB == <<"a"," ","<i>","s","u","b","</i>">>

HeadingNodes ==
    { <<>>,
      <<Node("text", <<>>, A_TALE)>>,
      <<Node("text", <<>>, <<"X","I","V">>)>>,
      <<Node("text", <<>>, <<"B","o","o">>)>>,
      <<Node("i", <<>>, A_TALE)>>,
      <<Node("span", <<>>, A_TALE)>>,
      <<Node("span", <<>>, A_TALE), Node("span", <<"subtitle">>, A_SUB)>>,
      <<Node("span", <<"subtitle">>, A_SUB)>>,
      <<Node("span", <<"z3998:roman">>, <<"I","V">>)>>,
      <<Node("span", <<"z3998:roman">>, <<"I","V">>),
        Node("span", <<"subtitle">>, A_SUB)>>,
      <<Node("span", <<"z3998:roman">>, <<"B","o","o">>),
        Node("span", <<>>, A_TALE)>>,
      <<Node("text", <<>>, <<"B","o","o","k"," ">>),
        Node("span", <<"z3998:roman">>, <<"I","V">>)>>,
      <<Node("text", <<>>, <<"p","a","r","t"," ">>),
        Node("span", <<"z3998:roman">>, <<"i","v">>)>> }

HeadingMarkers == { <<>>, <<"title">>, <<"title", "z3998:roman">> }

Headings ==
    {Heading(m, l, n) : m \in HeadingMarkers, l \in BOOLEAN, n \in HeadingNodes}

NearestAncestors ==
    { Element("section", <<>>, <<"x">>),
      Element("section", <<"chapter">>, <<"c","h","-","1">>),
      Element("section", <<"subchapter">>, <<>>),
      Element("section", <<"part">>, <<"p","-","1">>),
      Element("section", <<"volume">>, <<>>),
      Element("section", <<"se:short-story">>, <<"s">>),
      Element("article", <<>>, <<>>) }

FartherAncestors ==
    { <<>>,
      <<Element("section", <<"part">>, <<"p","a","r","t","-","2">>)>>,
      <<Element("section", <<"volume">>, <<"b","o","o","k","-","1">>)>> }

AncestorChains ==
    { <<>>, <<Element("body", <<"bodymatter">>, <<>>)>> }
        \cup { <<n>> \o f \o <<Element("body", <<"bodymatter">>, <<>>)>> :
                   n \in NearestAncestors, f \in FartherAncestors }

Documents ==
    { Document(<<>>, <<>>, t) : t \in {<<>>, <<A_TALE>>} }
        \cup { Document(<<h>>, a, t) :
                   h \in Headings, a \in AncestorChains, t \in {<<>>, <<A_TALE>>} }

FileInit ==
    /\ doc \in Documents
    /\ result = FileResult("none", "", NoDocument, <<>>)
    /\ file_info = NewTitleInfo("NONE")
    /\ filePc = "read"

FileIdle ==
    /\ doc = NoDocument
    /\ result = FileResult("none", "", NoDocument, <<>>)
    /\ file_info = NewTitleInfo("NONE")
    /\ filePc = "idle"

ProcessFile ==
    /\ filePc = "read"
    /\ \E run \in {process_file_run(doc)} :
           /\ result' = run.result
           /\ file_info' = run.title_info
    /\ filePc' = "processed"
    /\ UNCHANGED doc
    /\ UNCHANGED <<slugVars, titleVars, divisionVars, prefixVars, batchVars>>

FileNext == ProcessFile

\* the numbering markers of a heading and the text each one marks: the
\* heading's own text, or that of a child span
NumberedTexts(heading) ==
    (IF "z3998:roman" \in Range(heading.epub_type)
     THEN {Strip(StripTags(extract_contents_as_string(heading)))}
     ELSE {})
    \cup {StripTags(heading.nodes[k].content) :
              k \in {j \in DOMAIN heading.nodes :
                         /\ heading.nodes[j].kind = "span"
                         /\ "z3998:roman" \in Range(heading.nodes[j].epub_type)}}

\* a numbering marker is present and its text is no Roman numeral
MalformedNumeral(document) ==
    /\ document.heading # <<>>
    /\ \E t \in NumberedTexts(document.heading[1]) : ~ValidRoman(t)

HasChildElements(heading) ==
    \E k \in DOMAIN heading.nodes : heading.nodes[k].kind # "text"

HasChildSpans(heading) ==
    \E k \in DOMAIN heading.nodes : heading.nodes[k].kind = "span"

\* a heading of none of the recognized shapes: not the compound pattern, not
\* a single-element heading, no immediate child span
UnrecognizedShape(heading) ==
    /\ ~CompoundMatches(extract_contents_as_string(heading))
    /\ HasChildElements(heading)
    /\ ~HasChildSpans(heading)

FileProcessed == filePc = "processed"

\* C6: a heading of none of the recognized shapes ends process_file in an
\* UnrecognizedHeadingStructure failure, never in a success.
UnrecognizedHeadingFails ==
    (FileProcessed /\ doc.heading # <<>> /\ UnrecognizedShape(doc.heading[1])) =>
        /\ result.status # "ok"
        /\ result.exc = "UnrecognizedHeadingStructure"

\* C9: with a heading but no title element process_file fails; a success
\* comes with a title element that holds the formatted title.
NoTitleElementFails ==
    (FileProcessed /\ result.status = "ok") =>
        /\ doc.title_tag # <<>>
        /\ result.xhtml.title_tag = <<output_title_tag(file_info)>>

\* C10: how a heading is parsed depends on its structure alone, not on its
\* layout: a heading of text only with a numbering marker gives the number
\* and no title, one of text only without the marker gives the title-cased
\* text as title, and one with child spans is parsed span by span, so that a
\* subtitle span gives a subtitle.
ParsedByStructure ==
    (FileProcessed /\ doc.heading # <<>>
        /\ ~CompoundMatches(extract_contents_as_string(doc.heading[1]))) =>
        LET heading == doc.heading[1]
            plain == Strip(StripTags(extract_contents_as_string(heading)))
            numbered == "z3998:roman" \in Range(heading.epub_type)
            subtitles == {k \in DOMAIN heading.nodes :
                              /\ heading.nodes[k].kind = "span"
                              /\ "subtitle" \in Range(heading.nodes[k].epub_type)}
        IN  /\ (~HasChildElements(heading) /\ numbered /\ ValidRoman(plain)) =>
                   /\ result.status = "ok"
                   /\ file_info.number = fromRoman(plain)
                   /\ file_info.title = <<>>
                   /\ file_info.title_no_embeds = <<>>
            /\ (~HasChildElements(heading) /\ ~numbered) =>
                   /\ result.status = "ok"
                   /\ file_info.title = titlecase(plain)
                   /\ file_info.title_no_embeds = titlecase(plain)
            /\ (HasChildSpans(heading) /\ result.status = "ok") =>
                   \A k \in subtitles :
                       file_info.subtitle_no_embeds =
                           titlecase(StripTags(heading.nodes[k].content))

(***************************************************************************)
(* SpecBatch: main over every spine of up to MaxFiles of the files of a    *)
(* book, with and without --rename.                                        *)
(***************************************************************************)
ChapterUnderPart ==
    << Element("section", <<"chapter">>, <<"c","h","-","1">>),
       Element("section", <<"part">>, <<"p","a","r","t","-","2">>),
       Element("body", <<"bodymatter">>, <<>>) >>

BookFiles ==
    (<<"t","i","t","l","e","p","a","g","e">> :>
        Document(<<Heading(<<"title">>, FALSE, <<Node("text", <<>>, A_TALE)>>)>>,
                 ChapterUnderPart, <<A_TALE>>))
    @@ (<<"c","1">> :>
        Document(<<Heading(<<"title", "z3998:roman">>, FALSE,
                           <<Node("text", <<>>, <<"X","I","V">>)>>)>>,
                 ChapterUnderPart, <<A_TALE>>))
    @@ (<<"c","2">> :>
        Document(<<Heading(<<"title">>, TRUE,
                           <<Node("span", <<>>, A_TALE),
                             Node("span", <<"subtitle">>, A_SUB)>>)>>,
                 ChapterUnderPart, <<A_TALE>>))
    @@ (<<"n","o","h">> :> Document(<<>>, <<>>, <<A_TALE>>))
    @@ (<<"n","o","t">> :>
        Document(<<Heading(<<"title">>, FALSE, <<Node("text", <<>>, A_TALE)>>)>>,
                 ChapterUnderPart, <<>>))
    @@ (<<"b","a","d","1">> :>
        Document(<<Heading(<<"title", "z3998:roman">>, FALSE,
                           <<Node("text", <<>>, <<"B","o","o">>)>>)>>,
                 ChapterUnderPart, <<A_TALE>>))
    @@ (<<"b","a","d","2">> :>
        Document(<<Heading(<<"title">>, TRUE,
                           <<Node("span", <<"z3998:roman">>, <<"B","o","o">>),
                             Node("span", <<>>, A_TALE)>>)>>,
                 ChapterUnderPart, <<A_TALE>>))
    @@ (<<"b","a","d","3">> :>
        Document(<<Heading(<<"title">>, FALSE,
                           <<Node("text", <<>>, <<"p","a","r","t"," ">>),
                             Node("span", <<"z3998:roman">>, <<"i","v">>)>>)>>,
                 ChapterUnderPart, <<A_TALE>>))
    @@ (<<"o","d","d">> :>
        Document(<<Heading(<<"title">>, TRUE, <<Node("i", <<>>, A_TALE)>>)>>,
                 ChapterUnderPart, <<A_TALE>>))

\* the idrefs a spine may hold: the files of the book and one that is missing
SpineNames == DOMAIN BookFiles \cup { <<"g","o","n","e">> }

RECURSIVE Spines(_)
Spines(n) ==
    IF n = 0 THEN {<<>>}
    ELSE LET shorter == Spines(n - 1)
         IN  shorter \cup {Append(l, f) : l \in shorter, f \in SpineNames}

BatchInit ==
    /\ file_list \in {l \in Spines(MaxFiles) : Cardinality(Range(l)) = Len(l)}
    /\ rename \in BOOLEAN
    /\ files = BookFiles
    /\ index = 1
    /\ processed = 0
    /\ calls = <<>>
    /\ warned = FALSE
    /\ main_exc = ""
    /\ mainPc = "loop"

BatchIdle ==
    /\ file_list = <<>>
    /\ rename = FALSE
    /\ files = <<>>
    /\ index = 1
    /\ processed = 0
    /\ calls = <<>>
    /\ warned = FALSE
    /\ main_exc = ""
    /\ mainPc = "idle"

\* one turn of the loop "for file_name in file_list"; calls records what
\* process_file was called with and how it ended
MainIteration ==
    /\ mainPc = "loop"
    /\ index <= Len(file_list)
    /\ \E file_name \in {file_list[index]} :
       \E soup \in {gethtml(files, file_name)} :
       \E res \in {process_file(soup)} :
           IF file_name \in EXCLUDE_LIST
           THEN /\ index' = index + 1
                /\ UNCHANGED <<files, processed, calls, main_exc, mainPc>>
           ELSE /\ calls' = Append(calls, [index |-> index, soup |-> soup,
                                           status |-> res.status])
                /\ IF res.status = "raise"
                   THEN /\ mainPc' = "crashed"
                        /\ main_exc' = res.exc
                        /\ UNCHANGED <<files, processed, index>>
                   ELSE /\ index' = index + 1
                        /\ UNCHANGED <<main_exc, mainPc>>
                        /\ IF res.status = "ok"
                           THEN /\ processed' = processed + 1
                                /\ files' =
                                       IF rename
                                       THEN IF res.new_id # <<>>
                                            THEN puthtml(files, res.new_id, res.xhtml)
                                            ELSE files
                                       ELSE puthtml(files, file_name, res.xhtml)
                           ELSE UNCHANGED <<files, processed>>
    /\ UNCHANGED <<file_list, rename, warned>>
    /\ UNCHANGED <<slugVars, titleVars, divisionVars, prefixVars, fileVars>>

\* after the loop: "if processed == 0"
MainFinish ==
    /\ mainPc = "loop"
    /\ index > Len(file_list)
    /\ warned' = (processed = 0)
    /\ mainPc' = "done"
    /\ UNCHANGED <<file_list, rename, files, index, processed, calls, main_exc>>
    /\ UNCHANGED <<slugVars, titleVars, divisionVars, prefixVars, fileVars>>

BatchNext == MainIteration \/ MainFinish

\* C7: a file with a numbering marker on something that is no Roman numeral
\* ends in a failure of that file: never in a success, never in an exception
\* that nothing handles.
MalformedNumeralFailsFile ==
    \A k \in DOMAIN calls :
        MalformedNumeral(calls[k].soup) =>
            /\ calls[k].status \notin {"ok", "raise"}
            /\ mainPc # "crashed"

\* C8: a file that fails does not stop the batch: when main has stopped, it
\* has been through the whole spine, every file not excluded was processed
\* and, where that succeeded, written, and the warning for zero files was
\* evaluated.
BatchIsolatesFailures ==
    mainPc \in {"done", "crashed"} =>
        /\ mainPc = "done"
        /\ \A i \in DOMAIN file_list :
               file_list[i] \notin EXCLUDE_LIST =>
                   \E k \in DOMAIN calls : calls[k].index = i
        /\ \A k \in DOMAIN calls :
               calls[k].status = "ok" =>
                   \E name \in DOMAIN files :
                       files[name] = process_file(calls[k].soup).xhtml
        /\ warned = (processed = 0)

(***************************************************************************)
(* Specifications: each runs one part of the program and leaves the        *)
(* variables of the other parts alone.                                     *)
(***************************************************************************)
SlugStart ==
    /\ SlugInit
    /\ TitleIdle
    /\ DivisionIdle
    /\ PrefixIdle
    /\ FileIdle
    /\ BatchIdle

SpecSlug == SlugStart /\ [][SlugNext]_vars

TitleStart ==
    /\ TitleInit
    /\ SlugIdle
    /\ DivisionIdle
    /\ PrefixIdle
    /\ FileIdle
    /\ BatchIdle

SpecTitle == TitleStart /\ [][TitleNext]_vars

DivisionStart ==
    /\ DivisionInit
    /\ SlugIdle
    /\ TitleIdle
    /\ PrefixIdle
    /\ FileIdle
    /\ BatchIdle

SpecDivision == DivisionStart /\ [][DivisionNext]_vars

PrefixStart ==
    /\ PrefixInit
    /\ SlugIdle
    /\ TitleIdle
    /\ DivisionIdle
    /\ FileIdle
    /\ BatchIdle

SpecPrefix == PrefixStart /\ [][PrefixNext]_vars

FileStart ==
    /\ FileInit
    /\ SlugIdle
    /\ TitleIdle
    /\ DivisionIdle
    /\ PrefixIdle
    /\ BatchIdle

SpecFile == FileStart /\ [][FileNext]_vars

BatchStart ==
    /\ BatchInit
    /\ SlugIdle
    /\ TitleIdle
    /\ DivisionIdle
    /\ PrefixIdle
    /\ FileIdle

SpecBatch == BatchStart /\ [][BatchNext]_vars

====
